---- MODULE Spec2Model ----
(***************************************************************************)
(* Model of shared/file_io.py: BinaryReader and BinaryWriter, positioned   *)
(* typed reads and writes over one Python file object.                     *)
(*                                                                         *)
(* A descriptor (`type`) is a string, modelled as the sequence of its      *)
(* characters.  A Python value is a tagged record [k, v]:                  *)
(*   k = "int"   v an integer                                              *)
(*   k = "str"   v the sequence of the string's code points                *)
(*   k = "bytes" v the sequence of byte values (0..255)                    *)
(*   k = "float" v the 8 bytes of the IEEE-754 binary64 pattern            *)
(*   k = "bool"  v a boolean;   k = "none"  v = 0                          *)
(***************************************************************************)
EXTENDS Integers, Sequences, FiniteSets, TLC

VARIABLES
    mode,    \* "rb": a BinaryReader; "wb+": a BinaryWriter
    closed,  \* the file object is closed
    file,    \* the bytes of the file
    pos,     \* the cursor of the file object
    last,    \* the last call made: its arguments and its result
    prev,    \* the call before it, when it was a seek or write that succeeded
    nops     \* the number of calls made

vars == <<mode, closed, file, pos, last, prev, nops>>

\* Largest number of calls made on one reader or writer.
MaxOps == 2

(***************************************************************************)
(* Descriptors                                                             *)
(***************************************************************************)
uchar == <<"u", "c", "h", "a", "r">>
ushort == <<"u", "s", "h", "o", "r", "t">>
uint == <<"u", "i", "n", "t">>
char == <<"c", "h", "a", "r">>
short == <<"s", "h", "o", "r", "t">>
int == <<"i", "n", "t">>
float == <<"f", "l", "o", "a", "t">>
double == <<"d", "o", "u", "b", "l", "e">>
string == <<"s", "t", "r", "i", "n", "g">>

\* str.endswith
endswith(s, suffix) ==
    /\ Len(s) >= Len(suffix)
    /\ SubSeq(s, Len(s) - Len(suffix) + 1, Len(s)) = suffix

\* A mutant of is_primitive: 'string' left out of the list.
is_primitive_fixed_width(type) ==
    type \in {uchar, ushort, uint, char, short, int, float, double}

is_primitive(type) ==
    type \in {uchar, ushort, uint, char, short, int, float, double, string}

primitive_sizes(type) ==
    CASE type = uchar -> 1
      [] type = char -> 1
      [] type = ushort -> 2
      [] type = short -> 2
      [] type = uint -> 4
      [] type = int -> 4
      [] type = float -> 4
      [] type = double -> 8

primitive_size(type) ==
    IF type = string THEN 0
    ELSE IF ~is_primitive(type) THEN 0
    ELSE primitive_sizes(type)

is_array(type) == endswith(type, <<"[", "]">>)

\* A mutant of is_pointer: the marker looked for anywhere in the name.
is_pointer_anywhere(type) == \E i \in 1..Len(type) : type[i] = "*"

is_pointer(type) == endswith(type, <<"*">>)

(***************************************************************************)
(* Python values                                                           *)
(***************************************************************************)
None == [k |-> "none", v |-> 0]
PyInt(n) == [k |-> "int", v |-> n]
PyStr(s) == [k |-> "str", v |-> s]
PyBytes(b) == [k |-> "bytes", v |-> b]
PyFloat(b) == [k |-> "float", v |-> b]
PyBool(b) == [k |-> "bool", v |-> b]

RECURSIVE Pow(_, _)
Pow(b, e) == IF e = 0 THEN 1 ELSE b * Pow(b, e - 1)

Zeros(n) == [i \in 1..n |-> 0]

(***************************************************************************)
(* struct: big-endian ('>') standard formats B H I b h i f d               *)
(***************************************************************************)
calcsize(c) ==
    CASE c \in {"B", "b"} -> 1
      [] c \in {"H", "h"} -> 2
      [] c \in {"I", "i", "f"} -> 4
      [] c = "d" -> 8

is_signed(c) == c \in {"b", "h", "i"}

is_int_format(c) == c \in {"B", "H", "I", "b", "h", "i"}

\* The range check of an integer format: the value fits calcsize(c) bytes,
\* unsigned or two's complement.  Stated on the top byte so that no
\* intermediate value leaves 32 bits.
in_range(c, x) ==
    LET top == x \div Pow(256, calcsize(c) - 1)
    IN  IF is_signed(c) THEN top >= -128 /\ top <= 127
                        ELSE top >= 0 /\ top <= 255

\* A mutant of bp_int: the low byte stored first.
RECURSIVE bp_int_little_endian(_, _)
bp_int_little_endian(x, n) ==
    IF n = 0 THEN <<>>
    ELSE <<x % 256>> \o bp_int_little_endian(x \div 256, n - 1)

\* bp_int / bp_uint: the low byte is stored last, then x >>= 8.
RECURSIVE bp_int(_, _)
bp_int(x, n) ==
    IF n = 0 THEN <<>> ELSE Append(bp_int(x \div 256, n - 1), x % 256)

\* bu_uint: x = (x << 8) | byte, from the first byte on.
RECURSIVE bu_uint(_)
bu_uint(b) ==
    IF Len(b) = 0 THEN 0
    ELSE bu_uint(SubSeq(b, 1, Len(b) - 1)) * 256 + b[Len(b)]

\* A mutant of bu_int: the sign extension off by one.
RECURSIVE bu_int_off_by_one(_)
bu_int_off_by_one(b) ==
    IF Len(b) = 0 THEN 0
    ELSE IF Len(b) = 1 THEN (IF b[1] >= 128 THEN b[1] - 255 ELSE b[1])
    ELSE bu_int_off_by_one(SubSeq(b, 1, Len(b) - 1)) * 256 + b[Len(b)]

\* bu_int: as bu_uint, then sign-extended from the top bit of the first byte.
RECURSIVE bu_int(_)
bu_int(b) ==
    IF Len(b) = 0 THEN 0
    ELSE IF Len(b) = 1 THEN (IF b[1] >= 128 THEN b[1] - 256 ELSE b[1])
    ELSE bu_int(SubSeq(b, 1, Len(b) - 1)) * 256 + b[Len(b)]

(***************************************************************************)
(* Floats.  A Python float is a binary64; struct's 'f' narrows it to       *)
(* binary32 (round to nearest, ties to even) and widens it back.           *)
(***************************************************************************)
\* Largest k with 2^k <= n, for n >= 1.
RECURSIVE bit_length_m1(_)
bit_length_m1(n) == IF n < 2 THEN 0 ELSE 1 + bit_length_m1(n \div 2)

\* The binary64 pattern with sign s, exponent field e and a mantissa whose
\* top 30 bits are m30 (the low 22 bits are zero).
double_bytes(s, e, m30) ==
    << s * 128 + e \div 16,
       (e % 16) * 16 + m30 \div Pow(2, 26),
       (m30 \div Pow(2, 18)) % 256,
       (m30 \div Pow(2, 10)) % 256,
       (m30 \div 4) % 256,
       (m30 % 4) * 64,
       0, 0 >>

\* float(n) for an int n, |n| < 2^30: exact.
int_to_double(n) ==
    LET a == IF n < 0 THEN 0 - n ELSE n
        p == bit_length_m1(a)
    IN  IF n = 0 THEN Zeros(8)
        ELSE double_bytes(IF n < 0 THEN 1 ELSE 0, 1023 + p,
                          (a - Pow(2, p)) * Pow(2, 30 - p))

\* The binary32 pattern with sign s, exponent field e, 23-bit mantissa m.
single_bytes(s, e, m) ==
    << s * 128 + e \div 2,
       (e % 2) * 128 + m \div Pow(2, 16),
       (m \div 256) % 256,
       m % 256 >>

\* (float)x of C on a binary64 pattern b: [overflow, bytes].
narrow(b) ==
    LET s     == b[1] \div 128
        e     == (b[1] % 128) * 16 + b[2] \div 16
        m23   == ((b[2] % 16) * Pow(2, 16) + b[3] * 256 + b[4]) * 8
                 + b[5] \div 32
        rem29 == (b[5] % 32) * Pow(2, 24) + b[6] * Pow(2, 16)
                 + b[7] * 256 + b[8]
        E     == e - 896
        upN   == rem29 > Pow(2, 28) \/ (rem29 = Pow(2, 28) /\ m23 % 2 = 1)
        mN    == m23 + (IF upN THEN 1 ELSE 0)
        EN    == IF mN = Pow(2, 23) THEN E + 1 ELSE E
        sh    == 1 - E
        full  == Pow(2, 23) + m23
        q     == full \div Pow(2, sh)
        r     == full % Pow(2, sh)
        half  == Pow(2, sh - 1)
        upS   == \/ r > half
                 \/ r = half /\ rem29 > 0
                 \/ r = half /\ rem29 = 0 /\ q % 2 = 1
        mS    == q + (IF upS THEN 1 ELSE 0)
    IN  IF e = 2047
        THEN [overflow |-> FALSE,
              bytes |-> single_bytes(s, 255,
                          IF m23 = 0 /\ rem29 > 0 THEN Pow(2, 22) ELSE m23)]
        ELSE IF e = 0 \/ sh > 24
        THEN [overflow |-> FALSE, bytes |-> single_bytes(s, 0, 0)]
        ELSE IF E >= 1
        THEN IF EN >= 255
             THEN [overflow |-> TRUE, bytes |-> <<>>]
             ELSE [overflow |-> FALSE,
                   bytes |-> single_bytes(s, EN, mN % Pow(2, 23))]
        ELSE [overflow |-> FALSE,
              bytes |-> single_bytes(s, mS \div Pow(2, 23), mS % Pow(2, 23))]

\* Shifts a subnormal binary32 mantissa left until bit 23 is set.
RECURSIVE normalise(_, _)
normalise(m, k) ==
    IF m >= Pow(2, 23) THEN <<m, k>> ELSE normalise(m * 2, k + 1)

\* (double)x of C on a binary32 pattern b: exact.
widen(b) ==
    LET s == b[1] \div 128
        e == (b[1] % 128) * 2 + b[2] \div 128
        m == (b[2] % 128) * Pow(2, 16) + b[3] * 256 + b[4]
        n == normalise(m, 0)
    IN  IF e = 255 THEN double_bytes(s, 2047, m * 128)
        ELSE IF e = 0 /\ m = 0 THEN double_bytes(s, 0, 0)
        ELSE IF e = 0
        THEN double_bytes(s, 897 - n[2], (n[1] - Pow(2, 23)) * 128)
        ELSE double_bytes(s, e + 896, m * 128)

\* struct.pack('>' + c, data): [res, bytes].
pack(c, data) ==
    IF is_int_format(c)
    THEN IF data.k # "int" \/ ~in_range(c, data.v)
         THEN [res |-> "struct.error", bytes |-> <<>>]
         ELSE [res |-> "ok", bytes |-> bp_int(data.v, calcsize(c))]
    ELSE IF data.k \notin {"float", "int"}
         THEN [res |-> "struct.error", bytes |-> <<>>]
         ELSE LET b == IF data.k = "int" THEN int_to_double(data.v)
                                         ELSE data.v
                  n == narrow(b)
              IN  IF c = "d" THEN [res |-> "ok", bytes |-> b]
                  ELSE IF n.overflow
                  THEN [res |-> "OverflowError", bytes |-> <<>>]
                  ELSE [res |-> "ok", bytes |-> n.bytes]

\* struct.unpack('>' + c, b)[0]: [res, ret].
unpack(c, b) ==
    IF Len(b) # calcsize(c) THEN [res |-> "struct.error", ret |-> None]
    ELSE IF c = "d" THEN [res |-> "ok", ret |-> PyFloat(b)]
    ELSE IF c = "f" THEN [res |-> "ok", ret |-> PyFloat(widen(b))]
    ELSE IF is_signed(c) THEN [res |-> "ok", ret |-> PyInt(bu_int(b))]
    ELSE [res |-> "ok", ret |-> PyInt(bu_uint(b))]

\* bytes(data, 'ascii'): [res, bytes].
ascii_bytes(data) ==
    IF data.k # "str" THEN [res |-> "TypeError", bytes |-> <<>>]
    ELSE IF \E i \in 1..Len(data.v) : data.v[i] > 127
    THEN [res |-> "UnicodeEncodeError", bytes |-> <<>>]
    ELSE [res |-> "ok", bytes |-> data.v]

(***************************************************************************)
(* The file object.  A state st is [file, pos, closed]: the bytes of the   *)
(* file, the cursor of the file object and whether it is closed.  Every    *)
(* call gives an outcome [file, pos, closed, res, ret]: the state it       *)
(* leaves, "ok" or the exception raised, and the value returned.           *)
(***************************************************************************)
Outcome(f, p, c, res, ret) ==
    [file |-> f, pos |-> p, closed |-> c, res |-> res, ret |-> ret]

Raise(st, e) == Outcome(st.file, st.pos, st.closed, e, None)

Min(a, b) == IF a < b THEN a ELSE b

Max(a, b) == IF a > b THEN a ELSE b

\* file.seek(offset, how), how 0 (from the start) or 1 (from the cursor).
file_seek(st, offset, how) ==
    LET t == IF how = 0 THEN offset ELSE st.pos + offset
    IN  IF st.closed THEN Raise(st, "ClosedFile")
        ELSE IF t < 0 THEN Raise(st, "OSError")
        ELSE Outcome(st.file, t, st.closed, "ok", PyInt(t))

\* file.tell()
file_tell(st) ==
    IF st.closed THEN Raise(st, "ClosedFile")
    ELSE Outcome(st.file, st.pos, st.closed, "ok", PyInt(st.pos))

\* file.read(size): the bytes from the cursor, at most size of them (all of
\* them for size -1); fewer than size at the end of the file.
file_read(st, size) ==
    LET upto == IF size = -1 THEN Len(st.file)
                ELSE Min(st.pos + size, Len(st.file))
        b    == SubSeq(st.file, st.pos + 1, upto)
    IN  IF st.closed THEN Raise(st, "ClosedFile")
        ELSE IF size < -1 THEN Raise(st, "ValueError")
        ELSE Outcome(st.file, st.pos + Len(b), st.closed, "ok", PyBytes(b))

\* A mutant of file_write: the cursor left where the write began.
file_write_cursor_kept(st, b) ==
    LET n == IF Len(b) = 0 THEN Len(st.file)
             ELSE Max(Len(st.file), st.pos + Len(b))
        f == [i \in 1..n |->
                IF i > st.pos /\ i <= st.pos + Len(b) THEN b[i - st.pos]
                ELSE IF i <= Len(st.file) THEN st.file[i]
                ELSE 0]
    IN  IF st.closed
        THEN Outcome(st.file, st.pos, st.closed, "ClosedFile", None)
        ELSE Outcome(f, st.pos, st.closed, "ok", PyInt(Len(b)))

\* file.write(b): overwrites from the cursor, extends the file, and fills
\* a gap between the old end and the cursor with zero bytes.
file_write(st, b) ==
    LET n == IF Len(b) = 0 THEN Len(st.file)
             ELSE Max(Len(st.file), st.pos + Len(b))
        f == [i \in 1..n |->
                IF i > st.pos /\ i <= st.pos + Len(b) THEN b[i - st.pos]
                ELSE IF i <= Len(st.file) THEN st.file[i]
                ELSE 0]
    IN  IF st.closed THEN Raise(st, "ClosedFile")
        ELSE Outcome(f, st.pos + Len(b), st.closed, "ok", PyInt(Len(b)))

file_close(st) == Outcome(st.file, st.pos, TRUE, "ok", None)

(***************************************************************************)
(* BinaryReader                                                            *)
(***************************************************************************)
\* The state a call continues from after a call with outcome o.
After(o) == [file |-> o.file, pos |-> o.pos, closed |-> o.closed]

\* The outcome o with ret as the value returned.
Returning(o, ret) == Outcome(o.file, o.pos, o.closed, o.res, ret)

\* A mutant of seek: 'current' taken from the start of the file.
seek_current_from_start(st, offset, whence) ==
    IF whence \in {"start", "current"}
    THEN Returning(file_seek(st, offset, 0), None)
    ELSE Raise(st, "InvalidWhence")

\* seek returns nothing: the position file.seek returns is dropped.
seek(st, offset, whence) ==
    IF whence = "start" THEN Returning(file_seek(st, offset, 0), None)
    ELSE IF whence = "current" THEN Returning(file_seek(st, offset, 1), None)
    ELSE Raise(st, "InvalidWhence")

tell(st) == file_tell(st)

close(st) == file_close(st)

\* A mutant of read_unpack: a short read padded with zero bytes.
read_unpack_padded(st, c, size) ==
    LET r == file_read(st, size)
        b == r.ret.v \o Zeros(size - Len(r.ret.v))
        u == unpack(c, b)
    IN  IF r.res # "ok" THEN r
        ELSE Outcome(r.file, r.pos, r.closed, u.res, u.ret)

\* struct.unpack('>' + c, self.file.read(size))[0]
read_unpack(st, c, size) ==
    LET r == file_read(st, size)
        u == unpack(c, r.ret.v)
    IN  IF r.res # "ok" THEN r
        ELSE Outcome(r.file, r.pos, r.closed, u.res, u.ret)

\* The loop of _read_string, s holding the characters read so far:
\* self.file.read(1)[0] raises IndexError on the empty bytes read at the end
\* of the file; chr() maps a byte to the code point of the same number.
RECURSIVE read_string_loop(_, _)
read_string_loop(st, s) ==
    LET r == file_read(st, 1)
    IN  IF r.res # "ok" THEN r
        ELSE IF Len(r.ret.v) = 0 THEN Raise(After(r), "IndexError")
        ELSE IF r.ret.v[1] = 0
        THEN Outcome(r.file, r.pos, r.closed, "ok", PyStr(s))
        ELSE read_string_loop(After(r), Append(s, r.ret.v[1]))

_read_string(st) == read_string_loop(st, <<>>)

read(st, type, base, offset, whence) ==
    LET s == seek(st, base + offset, whence)
        a == After(s)
    IN  IF s.res # "ok" THEN Raise(a, s.res)
        ELSE IF type = uchar THEN read_unpack(a, "B", 1)
        ELSE IF type = ushort THEN read_unpack(a, "H", 2)
        ELSE IF type = uint THEN read_unpack(a, "I", 4)
        ELSE IF type = char THEN read_unpack(a, "b", 1)
        ELSE IF type = short THEN read_unpack(a, "h", 2)
        ELSE IF type = int THEN read_unpack(a, "i", 4)
        ELSE IF type = float THEN read_unpack(a, "f", 4)
        ELSE IF type = double THEN read_unpack(a, "d", 8)
        ELSE IF type = string THEN _read_string(a)
        ELSE Raise(a, "InvalidType")

read_chunk(st, offset, size, whence) ==
    LET s == seek(st, offset, whence)
    IN  IF s.res # "ok" THEN Raise(After(s), s.res)
        ELSE file_read(After(s), size)

(***************************************************************************)
(* BinaryWriter                                                            *)
(***************************************************************************)
\* A mutant of write_pack: a byte written before the value is found not to
\* encode.
write_pack_partial(st, c, data) ==
    LET p == pack(c, data)
    IN  IF p.res # "ok" THEN Raise(After(file_write(st, <<0>>)), p.res)
        ELSE file_write(st, p.bytes)

\* self.file.write(struct.pack('>' + c, data))
write_pack(st, c, data) ==
    LET p == pack(c, data)
    IN  IF p.res # "ok" THEN Raise(st, p.res) ELSE file_write(st, p.bytes)

\* A mutant of write_string: the terminating zero byte left out.
write_string_unterminated(st, data) ==
    LET b == ascii_bytes(data)
    IN  IF b.res # "ok" THEN Raise(st, b.res)
        ELSE file_write(st, b.bytes)

\* self.file.write(bytes(data, 'ascii') + b'\x00')
write_string(st, data) ==
    LET b == ascii_bytes(data)
    IN  IF b.res # "ok" THEN Raise(st, b.res)
        ELSE file_write(st, Append(b.bytes, 0))

write(st, type, data, base, offset, whence) ==
    LET s == seek(st, base + offset, whence)
        a == After(s)
    IN  IF s.res # "ok" THEN Raise(a, s.res)
        ELSE IF type = uchar THEN write_pack(a, "B", data)
        ELSE IF type = ushort THEN write_pack(a, "H", data)
        ELSE IF type = uint THEN write_pack(a, "I", data)
        ELSE IF type = char THEN write_pack(a, "b", data)
        ELSE IF type = short THEN write_pack(a, "h", data)
        ELSE IF type = int THEN write_pack(a, "i", data)
        ELSE IF type = float THEN write_pack(a, "f", data)
        ELSE IF type = double THEN write_pack(a, "d", data)
        ELSE IF type = string THEN write_string(a, data)
        ELSE Raise(a, "InvalidType")

write_chunk(st, data, offset, whence) ==
    LET s == seek(st, offset, whence)
    IN  IF s.res # "ok" THEN Raise(After(s), s.res)
        ELSE file_write(After(s), data.v)

(***************************************************************************)
(* Inputs of the calls                                                     *)
(***************************************************************************)
Primitives == {uchar, ushort, uint, char, short, int, float, double, string}

\* Descriptors that are not primitive: array-marked, pointer-marked, other.
uint_array == <<"u", "i", "n", "t", "[", "]">>
uint_pointer == <<"u", "i", "n", "t", "*">>
foo == <<"f", "o", "o">>

Types == Primitives \cup {uint_array, uint_pointer, foo}

\* Descriptors asked of the classification queries.
Descriptors ==
    Types \cup { <<>>, <<"c", "h", "a", "r", "*", "[", "]">> }

\* (base, offset, whence) of read and write: the start of the file, past
\* the end of a short file, forwards from the cursor.
Places == { <<0, 0, "start">>, <<2, 1, "start">>, <<1, 1, "current">> }

\* Backwards from the cursor, a target before the start of the file, and a
\* whence that is none: taken with a few of the descriptors.
EdgePlaces ==
    { <<0, -1, "current">>, <<0, -1, "start">>, <<0, 0, "end">> }

\* (offset, whence) of seek, read_chunk and write_chunk.
SeekPlaces ==
    { <<0, "start">>, <<3, "start">>, <<2, "current">>, <<-1, "current">> }

BadSeekPlaces == { <<-1, "start">>, <<0, "end">> }

Sizes == {-1, 0, 4}

\* "", "abc", "A\x00B", "\xe9"
StrData == {PyStr(<<>>), PyStr(<<97, 98, 99>>), PyStr(<<65, 0, 66>>),
            PyStr(<<233>>)}

\* 0.1, 1e300
FloatData == {PyFloat(<<63, 185, 153, 153, 153, 153, 153, 154>>),
              PyFloat(<<126, 55, 228, 60, 136, 0, 117, 156>>)}

ChunkData == {PyBytes(<<>>), PyBytes(<<1, 2, 3, 4>>), PyBytes(<<255, 97, 0>>)}

\* (type, data) of write: values at the ends of each integer range and
\* just outside it, and data of the wrong Python type.
Writes ==
    ({uchar} \X {PyInt(255), PyInt(256), PyStr(<<>>)})
    \cup ({ushort} \X {PyInt(258), PyInt(65535), PyInt(-1)})
    \cup ({uint} \X {PyInt(16909060), PyInt(2147483647), PyInt(-1)})
    \cup ({char} \X {PyInt(-128), PyInt(127), PyInt(128)})
    \cup ({short} \X {PyInt(-2), PyInt(-32769)})
    \cup ({int} \X {PyInt(-2147483647), PyInt(16909060)})
    \cup ({float} \X (FloatData \cup {PyInt(3)}))
    \cup ({double} \X {PyFloat(<<63, 185, 153, 153, 153, 153, 153, 154>>)})
    \cup ({string} \X (StrData \cup {PyInt(0)}))
    \cup ({uint_array, uint_pointer, foo} \X {PyInt(0)})

\* The calls of read, read_chunk, write and write_chunk.
Reads == (Types \X Places) \cup ({uint, string, foo} \X EdgePlaces)

ReadChunks == (SeekPlaces \X Sizes) \cup (BadSeekPlaces \X {4})

WriteCalls ==
    (Writes \X Places)
    \cup ({<<uint, PyInt(16909060)>>, <<string, PyStr(<<97, 98, 99>>)>>,
           <<char, PyInt(128)>>, <<foo, PyInt(0)>>} \X EdgePlaces)

WriteChunks ==
    (ChunkData \X SeekPlaces) \cup ({PyBytes(<<1, 2, 3, 4>>)} \X BadSeekPlaces)

\* Contents of a file a BinaryReader is opened on.
ExistingFiles ==
    { <<>>, <<1, 2, 3, 4>>, <<97, 98, 99, 0, 255, 254>>,
      <<63, 128, 0, 0, 0, 0, 0, 0, 7>> }

(***************************************************************************)
(* State                                                                   *)
(***************************************************************************)
State == [file |-> file, pos |-> pos, closed |-> closed]

\* A call: its arguments (those it does not take left at a default), the
\* cursor `at` which it found the file, the exception res it raised or "ok",
\* and the value ret it returned.
Call(op, type, data, base, offset, whence, size, o) ==
    [op |-> op, type |-> type, data |-> data, base |-> base,
     offset |-> offset, whence |-> whence, size |-> size, at |-> pos,
     res |-> o.res, ret |-> o.ret]

NoCall ==
    [op |-> "open", type |-> <<>>, data |-> None, base |-> 0, offset |-> 0,
     whence |-> "start", size |-> 0, at |-> 0, res |-> "ok", ret |-> None]

\* What prev keeps of a call.
Remember(c) ==
    IF c.res = "ok" /\ c.op \in {"seek", "write"} THEN c ELSE NoCall

\* __init__: open(path, 'rb') on an existing file, or open(path, 'wb+'),
\* which creates the file or truncates it.
Init ==
    /\ mode \in {"rb", "wb+"}
    /\ file \in (IF mode = "wb+" THEN {<<>>} ELSE ExistingFiles)
    /\ pos = 0
    /\ closed = FALSE
    /\ last = NoCall
    /\ prev = NoCall
    /\ nops = 0

\* The call's outcome o becomes the state; last records the call.
Apply(op, type, data, base, offset, whence, size, o) ==
    /\ file' = o.file
    /\ pos' = o.pos
    /\ closed' = o.closed
    /\ last' = Call(op, type, data, base, offset, whence, size, o)
    /\ prev' = Remember(last)
    /\ nops' = nops + 1
    /\ UNCHANGED mode

\* A static method: no state but the record of the call.
Query(op, type, ret) ==
    Apply(op, type, None, 0, 0, "start", 0,
          Outcome(file, pos, closed, "ok", ret))

\* The model's integers have 32 bits: a read of 'uint' whose value is
\* 2^31 or more is left out.
Representable(type, base, offset, whence) ==
    LET s == seek(State, base + offset, whence)
    IN  ~ /\ type = uint
          /\ s.res = "ok"
          /\ s.pos + 4 <= Len(file)
          /\ file[s.pos + 1] >= 128

Seek(offset, whence) ==
    /\ nops < MaxOps
    /\ Apply("seek", <<>>, None, 0, offset, whence, 0,
             seek(State, offset, whence))

Tell ==
    /\ nops < MaxOps
    /\ Apply("tell", <<>>, None, 0, 0, "start", 0, tell(State))

Close ==
    /\ nops < MaxOps
    /\ Apply("close", <<>>, None, 0, 0, "start", 0, close(State))

Read(type, base, offset, whence) ==
    /\ nops < MaxOps
    /\ Representable(type, base, offset, whence)
    /\ Apply("read", type, None, base, offset, whence, 0,
             read(State, type, base, offset, whence))

ReadChunk(offset, size, whence) ==
    /\ nops < MaxOps
    /\ Apply("read_chunk", <<>>, None, 0, offset, whence, size,
             read_chunk(State, offset, size, whence))

IsPrimitive(type) ==
    /\ nops < MaxOps
    /\ Query("is_primitive", type, PyBool(is_primitive(type)))

PrimitiveSize(type) ==
    /\ nops < MaxOps
    /\ Query("primitive_size", type, PyInt(primitive_size(type)))

IsArray(type) ==
    /\ nops < MaxOps
    /\ Query("is_array", type, PyBool(is_array(type)))

IsPointer(type) ==
    /\ nops < MaxOps
    /\ Query("is_pointer", type, PyBool(is_pointer(type)))

\* write and write_chunk are methods of BinaryWriter only.
Write(type, data, base, offset, whence) ==
    /\ nops < MaxOps
    /\ mode = "wb+"
    /\ Apply("write", type, data, base, offset, whence, 0,
             write(State, type, data, base, offset, whence))

WriteChunk(data, offset, whence) ==
    /\ nops < MaxOps
    /\ mode = "wb+"
    /\ Apply("write_chunk", <<>>, data, 0, offset, whence, 0,
             write_chunk(State, data, offset, whence))

\* The calls on the file.
IO ==
    \/ \E p \in SeekPlaces \cup BadSeekPlaces : Seek(p[1], p[2])
    \/ Tell
    \/ Close
    \/ \E c \in Reads : Read(c[1], c[2][1], c[2][2], c[2][3])
    \/ \E c \in ReadChunks : ReadChunk(c[1][1], c[2], c[1][2])
    \/ \E c \in WriteCalls : Write(c[1][1], c[1][2], c[2][1], c[2][2], c[2][3])
    \/ \E c \in WriteChunks : WriteChunk(c[1], c[2][1], c[2][2])

\* The static methods.
Classify ==
    \/ \E t \in Descriptors : IsPrimitive(t)
    \/ \E t \in Descriptors : PrimitiveSize(t)
    \/ \E t \in Descriptors : IsArray(t)
    \/ \E t \in Descriptors : IsPointer(t)

Next == IO \/ Classify

Spec == Init /\ [][Next]_vars

\* The static methods read and change no state of the reader or writer, so
\* the two kinds of call are also checked apart.
SpecIO == Init /\ [][IO]_vars

SpecTypes == Init /\ [][Classify]_vars

(***************************************************************************)
(* Properties                                                              *)
(***************************************************************************)
IntTypes == {uchar, ushort, uint, char, short, int}

\* The position a call seeks to: base + offset from the start of the file
\* or from the cursor the call found.
Target(c) ==
    IF c.whence = "start" THEN c.base + c.offset
    ELSE c.at + c.base + c.offset

\* The exceptions of the seek that opens read, read_chunk, write and
\* write_chunk: a closed file, a whence that is none, a negative target.
SeekErrors == {"ClosedFile", "InvalidWhence", "OSError"}

\* The exceptions of encoding the value of a write.
EncodeErrors ==
    {"InvalidType", "struct.error", "OverflowError", "UnicodeEncodeError",
     "TypeError"}

\* last is a read of the descriptor and at the position of the write before it.
ReadBack ==
    /\ last.op = "read"
    /\ prev.op = "write"
    /\ last.type = prev.type
    /\ Target(last) = Target(prev)

HasZero(s) == \E i \in 1..Len(s) : s[i] = 0

\* C2: write('string', s, pos) of an ASCII s without a zero character,
\* followed by read('string', pos), returns s; and after the write the byte
\* of the file at pos + len(s) is zero.
C2_StringRoundTrip ==
    /\ (ReadBack /\ prev.type = string /\ ~HasZero(prev.data.v))
           => (last.res = "ok" /\ last.ret = prev.data)
    /\ (last.op = "write" /\ last.type = string /\ last.res = "ok")
           => /\ Len(file) > Target(last) + Len(last.data.v)
              /\ file[Target(last) + Len(last.data.v) + 1] = 0

\* "abc" written past the end of the file and read back.
C2_Witness ==
    /\ ReadBack
    /\ prev.type = string
    /\ prev.data = PyStr(<<97, 98, 99>>)
    /\ Target(prev) = 3
    /\ last.ret = PyStr(<<97, 98, 99>>)
    /\ file = <<0, 0, 0, 97, 98, 99, 0>>

\* C3: read_chunk(offset, size, whence) that returns, returns at least size
\* bytes.
C3_NoShortChunk ==
    (last.op = "read_chunk" /\ last.res = "ok")
        => Len(last.ret.v) >= last.size

\* The bytes of the file from position p on hold no zero.
Unterminated(p) == \A i \in Max(p + 1, 1)..Len(file) : file[i] # 0

\* C4: a read of a fixed-width descriptor whose bytes reach past the end of
\* the file, and a read of 'string' that meets the end of the file before a
\* zero byte, raise and return nothing.
C4_NoShortRead ==
    (/\ last.op = "read"
     /\ last.whence \in {"start", "current"}
     /\ \/ /\ primitive_size(last.type) > 0
           /\ Target(last) + primitive_size(last.type) > Len(file)
        \/ /\ last.type = string
           /\ Unterminated(Target(last)))
        => (last.res # "ok" /\ last.ret = None)

\* A read of 'uint' two bytes before the end of the file, which left the
\* cursor at the end.
C4_Witness ==
    /\ last.op = "read"
    /\ last.type = uint
    /\ Target(last) >= 0
    /\ Target(last) + 2 = Len(file)
    /\ pos = Len(file)
    /\ last.res = "struct.error"

\* C5: after seek(X, 'start'), X >= 0, the cursor, which tell() returns, is
\* X; after a seek(Y, 'current') that follows it, X + Y >= 0, it is X + Y:
\* whatever the length of the file.
C5_SeekTell ==
    /\ (last.op = "seek" /\ last.whence = "start" /\ last.offset >= 0
            /\ ~closed)
           => (last.res = "ok" /\ pos = last.offset)
    /\ (last.op = "seek" /\ last.whence = "current"
            /\ prev.op = "seek" /\ prev.whence = "start"
            /\ prev.offset + last.offset >= 0)
           => (last.res = "ok" /\ pos = prev.offset + last.offset)
    /\ (last.op = "tell" /\ ~closed)
           => (last.res = "ok" /\ last.ret = PyInt(pos))

\* seek(3, 'start') then seek(2, 'current') on a file of four bytes.
C5_Witness ==
    /\ last.op = "seek" /\ last.whence = "current" /\ last.offset = 2
    /\ prev.op = "seek" /\ prev.whence = "start" /\ prev.offset = 3
    /\ Len(file) = 4
    /\ pos = 5

\* C6: a read or write whose seek succeeded raises the invalid-descriptor
\* error exactly when is_primitive(descriptor) is false.
C6_SameDescriptors ==
    (last.op \in {"read", "write"} /\ last.res \notin SeekErrors)
        => (last.res = "InvalidType" <=> ~is_primitive(last.type))

\* A write of 'uint[]' raised the invalid-descriptor error.
C6_Witness ==
    /\ last.op = "write"
    /\ last.type = uint_array
    /\ last.res = "InvalidType"

\* The number of bytes a write of data as type puts in the file.
Written(type, data) ==
    IF type = string THEN Len(data.v) + 1 ELSE primitive_size(type)

\* C7: a write that succeeds returns the number of bytes written and leaves
\* the cursor that many bytes after its target; so does write_chunk.
C7_WriteAdvances ==
    /\ (last.op = "write" /\ last.res = "ok")
           => /\ last.ret = PyInt(Written(last.type, last.data))
              /\ pos = Target(last) + Written(last.type, last.data)
    /\ (last.op = "write_chunk" /\ last.res = "ok")
           => /\ last.ret = PyInt(Len(last.data.v))
              /\ pos = Target(last) + Len(last.data.v)

\* A double written two bytes after a cursor that was not at the start.
C7_Witness ==
    /\ last.op = "write"
    /\ last.type = double
    /\ last.whence = "current"
    /\ last.at > 0
    /\ last.ret = PyInt(8)
    /\ pos = last.at + 10

\* C8: an integer is written most significant byte first: after a write of v
\* in w bytes at pos, the byte at pos + i is (v div 256^(w-1-i)) mod 256; and
\* read_chunk of the 4 bytes of a 'uint' just written returns them in that
\* order, and read('uint') of 0x01020304 written so returns 0x01020304.
C8_BigEndian ==
    /\ (last.op = "write" /\ last.res = "ok" /\ last.type \in IntTypes)
           => \A i \in 0..(primitive_size(last.type) - 1) :
                  file[Target(last) + i + 1] =
                      (last.data.v
                          \div Pow(256, primitive_size(last.type) - 1 - i))
                      % 256
    /\ (last.op = "read_chunk" /\ last.size = 4
            /\ prev.op = "write" /\ prev.type = uint
            /\ Target(last) = Target(prev))
           => last.ret = PyBytes(
                  [i \in 1..4 |-> (prev.data.v \div Pow(256, 4 - i)) % 256])
    /\ (ReadBack /\ prev.type = uint /\ prev.data = PyInt(16909060))
           => last.ret = PyInt(16909060)

\* 'uint' 0x01020304 written at 0 of a new file, then read_chunk(0, 4).
C8_Witness ==
    /\ nops = 2
    /\ prev.op = "write" /\ prev.type = uint /\ prev.data = PyInt(16909060)
    /\ Target(prev) = 0
    /\ last.op = "read_chunk" /\ last.size = 4 /\ Target(last) = 0
    /\ last.ret = PyBytes(<<1, 2, 3, 4>>)

\* The classifications that hold of a descriptor.
Classes(type) ==
    {c \in {"atomic", "array", "pointer"} :
        \/ c = "atomic" /\ is_primitive(type)
        \/ c = "array" /\ is_array(type)
        \/ c = "pointer" /\ is_pointer(type)}

Classified ==
    last.op \in {"is_primitive", "is_array", "is_pointer"}

\* C9, as claimed: exactly one of is_primitive, is_array and is_pointer
\* holds of every descriptor.
C9_ExactlyOne == Classified => Cardinality(Classes(last.type)) = 1

\* C9, amended: no descriptor has two of the classifications; the nine
\* primitive names and the descriptors that end in '[]' or '*' have one.
C9_AtMostOne ==
    Classified =>
        /\ Cardinality(Classes(last.type)) <= 1
        /\ \/ last.type \in Primitives
           \/ endswith(last.type, <<"[", "]">>)
           \/ endswith(last.type, <<"*">>)
           => Cardinality(Classes(last.type)) = 1

\* is_array of 'char*[]', which holds a pointer marker too, returned True.
C9_Witness ==
    /\ last.op = "is_array"
    /\ last.type = <<"c", "h", "a", "r", "*", "[", "]">>
    /\ last.ret = PyBool(TRUE)

\* C10: a write that raises while encoding leaves the bytes of the file as
\* they were and the cursor at its target.
C10_FailedWriteFrame ==
    [][(last'.op = "write" /\ last'.res \in EncodeErrors)
           => (file' = file /\ pos' = Target(last')
               /\ closed' = closed)]_vars

\* An out-of-range 'uchar' written at 3 of a new file: the file stays empty
\* and the cursor is at 3.
C10_Witness ==
    /\ last.op = "write"
    /\ last.type = uchar
    /\ last.data = PyInt(256)
    /\ last.res = "struct.error"
    /\ Target(last) = 3
    /\ pos = 3
    /\ file = <<>>

====
